---- MODULE Spec2Model ----
(***************************************************************************)
(* Break conditions (src/src/module/BreakCondition.cpp) and the nuclear    *)
(* mass table (src/src/ParticleMass.cpp) of CRPropa3.                      *)
(*                                                                         *)
(* Lengths, energies, redshifts and masses are doubles in the source; the  *)
(* model uses integers, so it covers comparisons and exact arithmetic, not *)
(* floating-point rounding.  Positions are taken on a line, the distance   *)
(* between two positions being the absolute difference.                    *)
(***************************************************************************)
EXTENDS Integers, Sequences, FiniteSets, TLC

VARIABLES cand, mod, hist, pc, start, rejectSteps,
          file, table, tstate, lookup

vars == <<cand, mod, hist, pc, start, rejectSteps, file, table, tstate, lookup>>

bcVars   == <<cand, mod, hist, pc, start, rejectSteps>>
massVars == <<file, table, tstate, lookup>>

(***************************************************************************)
(* Bounds of the model.                                                    *)
(***************************************************************************)
MaxLen    == 3   \* trajectory lengths and length thresholds are 0..MaxLen
MaxStep   == 2   \* step sizes are 0..MaxStep
MaxEnergy == 1   \* energies and energy thresholds are 0..MaxEnergy
MaxZ      == 1   \* redshifts and redshift thresholds are 0..MaxZ
MaxList   == 2   \* entries of a MinimumEnergyPerParticleId list
MaxObs    == 1   \* observer positions of a MaximumTrajectoryLength
MaxPos    == 1   \* positions are 0..MaxPos
MaxCalls  == 2   \* consecutive process calls on one candidate
DefaultStep == 4 \* the next-step bound a propagation step starts from
MaxTableZ == 2   \* a mass file lists the charge numbers below a limit in 0..MaxTableZ

Min(a, b) == IF a <= b THEN a ELSE b
Abs(a)    == IF a < 0 THEN -a ELSE a

(***************************************************************************)
(* Particle ids.  A nucleus id encodes charge number Z and mass number A   *)
(* as 1000000000 + Z*10000 + A*10; any other id has charge number 0 here.   *)
(***************************************************************************)
nucleusId(A, Z) == 1000000000 + Z * 10000 + A * 10
isNucleus(id) == id >= 1000000000
chargeNumberFromNucleusId(id) == (id \div 10000) % 1000
massNumberFromNucleusId(id) == (id \div 10) % 1000
chargeNumber(id) == IF isNucleus(id) THEN chargeNumberFromNucleusId(id) ELSE 0

Neutron == nucleusId(1, 0)
Proton == nucleusId(1, 1)
Helium4 == nucleusId(4, 2)
ParticleIds == {Neutron, Proton, Helium4}

(***************************************************************************)
(* Candidate.                                                              *)
(***************************************************************************)
NoTag  == "<unset>"
Keys   == {"Rejected", "Stop"}
Values == {"", "why"}

NoTags == [k \in Keys |-> NoTag]
OldTags == [k \in Keys |-> IF k = "Rejected" THEN "old" ELSE NoTag]

DefaultCandidate ==
  [trajectoryLength |-> 0, currentStep |-> 0, nextStep |-> DefaultStep,
   energy |-> MaxEnergy, id |-> Proton, redshift |-> MaxZ, position |-> 0,
   active |-> TRUE, tags |-> NoTags]

\* Candidate::limitNextStep
limitNextStep(c, step) == [c EXCEPT !.nextStep = Min(c.nextStep, step)]

\* Candidate::setProperty
setProperty(c, key, value) == [c EXCEPT !.tags[key] = value]

\* Candidate::setActive
setActive(c, b) == [c EXCEPT !.active = b]

\* ParticleState::getRigidity() < r, with rigidity = energy / charge number
\* (infinite or undefined for charge number 0, so never below r)
rigidityBelow(c, r) ==
  LET Z == Abs(chargeNumber(c.id)) IN Z # 0 /\ c.energy < r * Z

\* Vector3d::getDistanceTo
getDistanceTo(p, q) == Abs(p - q)

(***************************************************************************)
(* A process call is carried as a run: the candidate and the log of what   *)
(* the call has done to it so far.                                         *)
(***************************************************************************)
Ev(op, arg) == [op |-> op, arg |-> arg]
Run(c, lg) == [cand |-> c, log |-> lg]

\* AbstractCondition::reject
reject(m, r) ==
  LET r1 == Run(setProperty(r.cand, m.rejectFlagKey, m.rejectFlagValue),
                Append(r.log, Ev("tag", 0)))
      r2 == IF m.makeRejectedInactive
            THEN Run(setActive(r1.cand, FALSE), Append(r1.log, Ev("deactivate", 0)))
            ELSE r1
      r3 == IF m.rejectAction
            THEN Run(r2.cand, Append(r2.log, Ev("action", 0)))
            ELSE r2
  IN r3

limit(r, step) == Run(limitNextStep(r.cand, step), Append(r.log, Ev("limit", step)))

\* mutant: an observer exactly maxLength away along the trajectory counts as
\* in range
MaximumTrajectoryLength_process_inclusive(m, c) ==
  LET length == c.trajectoryLength
      n == Len(m.observerPositions)
      inRange == \E i \in 1..n :
                   getDistanceTo(c.position, m.observerPositions[i]) + length <= m.maxLength
  IN IF n # 0 /\ ~inRange
     THEN reject(m, Run(c, <<>>))
     ELSE IF length >= m.maxLength
          THEN reject(m, Run(c, <<>>))
          ELSE limit(Run(c, <<>>), m.maxLength - length)

\* mutant: below maxLength the next step is left unlimited
MaximumTrajectoryLength_process_noLimit(m, c) ==
  LET length == c.trajectoryLength
      n == Len(m.observerPositions)
      inRange == \E i \in 1..n :
                   getDistanceTo(c.position, m.observerPositions[i]) + length < m.maxLength
  IN IF n # 0 /\ ~inRange
     THEN reject(m, Run(c, <<>>))
     ELSE IF length >= m.maxLength
          THEN reject(m, Run(c, <<>>))
          ELSE Run(c, <<>>)

\* mutant: the length test is strict, so a candidate exactly at maxLength passes
MaximumTrajectoryLength_process_strict(m, c) ==
  LET length == c.trajectoryLength
      n == Len(m.observerPositions)
      inRange == \E i \in 1..n :
                   getDistanceTo(c.position, m.observerPositions[i]) + length < m.maxLength
  IN IF n # 0 /\ ~inRange
     THEN reject(m, Run(c, <<>>))
     ELSE IF length > m.maxLength
          THEN reject(m, Run(c, <<>>))
          ELSE limit(Run(c, <<>>), m.maxLength - length)

\* MaximumTrajectoryLength::process
MaximumTrajectoryLength_process(m, c) ==
  LET length == c.trajectoryLength
      n == Len(m.observerPositions)
      inRange == \E i \in 1..n :
                   getDistanceTo(c.position, m.observerPositions[i]) + length < m.maxLength
  IN IF n # 0 /\ ~inRange
     THEN reject(m, Run(c, <<>>))
     ELSE IF length >= m.maxLength
          THEN reject(m, Run(c, <<>>))
          ELSE limit(Run(c, <<>>), m.maxLength - length)

\* MinimumEnergy::process
MinimumEnergy_process(m, c) ==
  IF c.energy > m.minEnergy THEN Run(c, <<>>) ELSE reject(m, Run(c, <<>>))

\* mutant: deactivates the candidate itself instead of calling reject
MinimumRigidity_process_noReject(m, c) ==
  IF rigidityBelow(c, m.minRigidity)
  THEN Run(setActive(c, FALSE), <<Ev("deactivate", 0)>>)
  ELSE Run(c, <<>>)

\* MinimumRigidity::process
MinimumRigidity_process(m, c) ==
  IF rigidityBelow(c, m.minRigidity) THEN reject(m, Run(c, <<>>)) ELSE Run(c, <<>>)

\* MinimumRedshift::process
MinimumRedshift_process(m, c) ==
  IF c.redshift > m.zmin THEN Run(c, <<>>) ELSE reject(m, Run(c, <<>>))

\* MinimumChargeNumber::process
MinimumChargeNumber_process(m, c) ==
  IF chargeNumber(c.id) > m.minChargeNumber THEN Run(c, <<>>) ELSE reject(m, Run(c, <<>>))

\* mutant: a matching entry at or below the energy goes on with the loop
\* instead of returning, so the fallback threshold still applies
RECURSIVE perIdLoop_noReturn(_, _, _)
perIdLoop_noReturn(m, r, i) ==
  IF i > Len(m.particleIds)
  THEN IF r.cand.energy < m.minEnergyOthers THEN reject(m, r) ELSE r
  ELSE IF r.cand.id = m.particleIds[i] /\ r.cand.energy < m.minEnergies[i]
       THEN perIdLoop_noReturn(m, reject(m, r), i + 1)
       ELSE perIdLoop_noReturn(m, r, i + 1)

MinimumEnergyPerParticleId_process_noReturn(m, c) == perIdLoop_noReturn(m, Run(c, <<>>), 1)

\* MinimumEnergyPerParticleId::process: the loop from index i on, then the
\* code after the loop.  A matching entry whose threshold is above the energy
\* rejects and the loop goes on; a matching entry at or below it returns.
RECURSIVE perIdLoop(_, _, _)
perIdLoop(m, r, i) ==
  IF i > Len(m.particleIds)
  THEN IF r.cand.energy < m.minEnergyOthers THEN reject(m, r) ELSE r
  ELSE IF r.cand.id = m.particleIds[i]
       THEN IF r.cand.energy < m.minEnergies[i]
            THEN perIdLoop(m, reject(m, r), i + 1)
            ELSE r
       ELSE perIdLoop(m, r, i + 1)

MinimumEnergyPerParticleId_process(m, c) == perIdLoop(m, Run(c, <<>>), 1)

\* mutant: the next step is set, not limited
DetectionLength_process_setNextStep(m, c) ==
  LET length == c.trajectoryLength
      step == c.currentStep
  IN IF length >= m.detLength /\ length - step < m.detLength
     THEN reject(m, Run(c, <<>>))
     ELSE Run([c EXCEPT !.nextStep = m.detLength - length],
              <<Ev("limit", m.detLength - length)>>)

\* mutant: the window test forgets the lower end, so every candidate past
\* detLength is rejected
DetectionLength_process_noWindow(m, c) ==
  LET length == c.trajectoryLength
  IN IF length >= m.detLength
     THEN reject(m, Run(c, <<>>))
     ELSE limit(Run(c, <<>>), m.detLength - length)

\* mutant: only a candidate that is still active is rejected
DetectionLength_process_activeOnly(m, c) ==
  LET length == c.trajectoryLength
      step == c.currentStep
  IN IF c.active /\ length >= m.detLength /\ length - step < m.detLength
     THEN reject(m, Run(c, <<>>))
     ELSE limit(Run(c, <<>>), m.detLength - length)

\* DetectionLength::process
DetectionLength_process(m, c) ==
  LET length == c.trajectoryLength
      step == c.currentStep
  IN IF length >= m.detLength /\ length - step < m.detLength
     THEN reject(m, Run(c, <<>>))
     ELSE limit(Run(c, <<>>), m.detLength - length)

(***************************************************************************)
(* Configurations of the break conditions and the candidates they meet.    *)
(***************************************************************************)
Flags == [rejectFlagKey : Keys, rejectFlagValue : Values,
          makeRejectedInactive : BOOLEAN, rejectAction : BOOLEAN]

\* AbstractCondition's defaults: key "Rejected", empty value, deactivate, no action
DefaultFlags == [rejectFlagKey |-> "Rejected", rejectFlagValue |-> "",
                 makeRejectedInactive |-> TRUE, rejectAction |-> FALSE]

SeqsUpTo(S, n) == UNION {[1..k -> S] : k \in 0..n}

MaximumTrajectoryLength(maxLength, obs, f) ==
  [kind |-> "MaximumTrajectoryLength", maxLength |-> maxLength,
   observerPositions |-> obs] @@ f
MinimumEnergy(minEnergy, f) == [kind |-> "MinimumEnergy", minEnergy |-> minEnergy] @@ f
MinimumRigidity(minRigidity, f) ==
  [kind |-> "MinimumRigidity", minRigidity |-> minRigidity] @@ f
MinimumRedshift(zmin, f) == [kind |-> "MinimumRedshift", zmin |-> zmin] @@ f
MinimumChargeNumber(minChargeNumber, f) ==
  [kind |-> "MinimumChargeNumber", minChargeNumber |-> minChargeNumber] @@ f
\* the constructor followed by one add(id, energy) per list entry
MinimumEnergyPerParticleId(minEnergyOthers, ids, energies, f) ==
  [kind |-> "MinimumEnergyPerParticleId", minEnergyOthers |-> minEnergyOthers,
   particleIds |-> ids, minEnergies |-> energies] @@ f
DetectionLength(detLength, f) == [kind |-> "DetectionLength", detLength |-> detLength] @@ f

Lengths  == 0..MaxLen
Steps    == 0..MaxStep
Energies == 0..MaxEnergy
Redshifts == 0..MaxZ
Positions == 0..MaxPos

\* m is a break condition as its constructor (and add, addObserverPosition)
\* can leave it, within the bounds
IsMod(m) ==
  \/ \E l \in Lengths, o \in SeqsUpTo(Positions, MaxObs), f \in Flags :
       m = MaximumTrajectoryLength(l, o, f)
  \/ \E e \in Energies, f \in Flags : m = MinimumEnergy(e, f)
  \/ \E e \in Energies, f \in Flags : m = MinimumRigidity(e, f)
  \/ \E z \in Redshifts, f \in Flags : m = MinimumRedshift(z, f)
  \/ \E z \in 0..2, f \in Flags : m = MinimumChargeNumber(z, f)
  \/ \E k \in 0..MaxList :
       \E ids \in [1..k -> {Proton, Helium4}], es \in [1..k -> Energies],
          e \in Energies, f \in Flags :
         m = MinimumEnergyPerParticleId(e, ids, es, f)
  \/ \E l \in Lengths, f \in Flags : m = DetectionLength(l, f)

\* The candidates a break condition of the given kind is tried on: the fields
\* its process reads vary, the others keep their default.
Common == {[DefaultCandidate EXCEPT !.active = a, !.tags = t] :
             a \in BOOLEAN, t \in {NoTags, OldTags}}

CandsFor(kind) ==
  CASE kind = "MaximumTrajectoryLength" ->
         {[c EXCEPT !.trajectoryLength = l, !.position = p] :
            c \in Common, l \in Lengths, p \in Positions}
    [] kind = "DetectionLength" ->
         {[c EXCEPT !.trajectoryLength = l, !.currentStep = s, !.nextStep = n] :
            c \in Common, l \in Lengths, s \in Steps, n \in {1, DefaultStep}}
    [] kind = "MinimumEnergy" -> {[c EXCEPT !.energy = e] : c \in Common, e \in Energies}
    [] kind = "MinimumRedshift" -> {[c EXCEPT !.redshift = z] : c \in Common, z \in Redshifts}
    [] kind = "MinimumChargeNumber" -> {[c EXCEPT !.id = i] : c \in Common, i \in ParticleIds}
    [] OTHER -> {[c EXCEPT !.energy = e, !.id = i] :
                   c \in Common, e \in Energies, i \in ParticleIds}

(***************************************************************************)
(* The mass table takes no part in the break-condition specifications.     *)
(***************************************************************************)
NoLookup == [outcome |-> "none", id |-> 0, value |-> 0]
MassIdle == file = <<>> /\ table = <<>> /\ tstate = "unused" /\ lookup = NoLookup

(***************************************************************************)
(* Spec: one break condition, one candidate, process called on it up to    *)
(* MaxCalls times in a row with nothing else touching the candidate.       *)
(***************************************************************************)
Init ==
  /\ IsMod(mod)
  /\ cand \in CandsFor(mod.kind)
  /\ hist = <<>>
  /\ pc = "call"
  /\ start = cand
  /\ rejectSteps = 0
  /\ MassIdle

\* one call of process, whose outcome is the run r
Call(r) ==
  /\ cand' = r.cand
  /\ hist' = Append(hist, [pre |-> cand, post |-> r.cand, log |-> r.log])

Ready(kind) == pc = "call" /\ mod.kind = kind /\ Len(hist) < MaxCalls

ProcessMaximumTrajectoryLength ==
  /\ Ready("MaximumTrajectoryLength")
  /\ Call(MaximumTrajectoryLength_process(mod, cand))
  /\ UNCHANGED <<mod, pc, start, rejectSteps, massVars>>

ProcessMinimumEnergy ==
  /\ Ready("MinimumEnergy")
  /\ Call(MinimumEnergy_process(mod, cand))
  /\ UNCHANGED <<mod, pc, start, rejectSteps, massVars>>

ProcessMinimumRigidity ==
  /\ Ready("MinimumRigidity")
  /\ Call(MinimumRigidity_process(mod, cand))
  /\ UNCHANGED <<mod, pc, start, rejectSteps, massVars>>

ProcessMinimumRedshift ==
  /\ Ready("MinimumRedshift")
  /\ Call(MinimumRedshift_process(mod, cand))
  /\ UNCHANGED <<mod, pc, start, rejectSteps, massVars>>

ProcessMinimumChargeNumber ==
  /\ Ready("MinimumChargeNumber")
  /\ Call(MinimumChargeNumber_process(mod, cand))
  /\ UNCHANGED <<mod, pc, start, rejectSteps, massVars>>

ProcessMinimumEnergyPerParticleId ==
  /\ Ready("MinimumEnergyPerParticleId")
  /\ Call(MinimumEnergyPerParticleId_process(mod, cand))
  /\ UNCHANGED <<mod, pc, start, rejectSteps, massVars>>

ProcessDetectionLength ==
  /\ Ready("DetectionLength")
  /\ Call(DetectionLength_process(mod, cand))
  /\ UNCHANGED <<mod, pc, start, rejectSteps, massVars>>

Next ==
  \/ ProcessMaximumTrajectoryLength
  \/ ProcessMinimumEnergy
  \/ ProcessMinimumRigidity
  \/ ProcessMinimumRedshift
  \/ ProcessMinimumChargeNumber
  \/ ProcessMinimumEnergyPerParticleId
  \/ ProcessDetectionLength

Spec == Init /\ [][Next]_vars

(***************************************************************************)
(* SpecChain: any number of MaximumTrajectoryLength and DetectionLength    *)
(* instances, with any thresholds and in any order, process one candidate; *)
(* the propagation resets the next-step bound between steps.               *)
(***************************************************************************)
ChainFlags == {DefaultFlags, [DefaultFlags EXCEPT !.makeRejectedInactive = FALSE]}

InitChain ==
  /\ cand \in {[DefaultCandidate EXCEPT !.trajectoryLength = l, !.currentStep = s,
                                        !.nextStep = n] :
                 l \in Lengths, s \in Steps, n \in {1, DefaultStep}}
  /\ mod \in {DetectionLength(0, DefaultFlags)}
  /\ hist = <<>>
  /\ pc = "chain"
  /\ start = cand
  /\ rejectSteps = 0
  /\ MassIdle

\* the call of process of instance m, the latest call being kept in hist
ChainCall(m, r) ==
  /\ pc = "chain"
  /\ mod' = m
  /\ cand' = r.cand
  /\ hist' = <<[pre |-> cand, post |-> r.cand, log |-> r.log]>>
  /\ UNCHANGED <<pc, start, rejectSteps, massVars>>

ChainMaximumTrajectoryLength ==
  \E l \in Lengths, o \in SeqsUpTo(Positions, 1), f \in ChainFlags :
    LET m == MaximumTrajectoryLength(l, o, f)
    IN ChainCall(m, MaximumTrajectoryLength_process(m, cand))

ChainDetectionLength ==
  \E l \in Lengths, f \in ChainFlags :
    LET m == DetectionLength(l, f)
    IN ChainCall(m, DetectionLength_process(m, cand))

\* Candidate::setNextStep(DefaultStep) at the start of a propagation step
ChainReset ==
  /\ pc = "chain"
  /\ cand.nextStep # DefaultStep
  /\ cand' = [cand EXCEPT !.nextStep = DefaultStep]
  /\ hist' = <<>>
  /\ UNCHANGED <<mod, pc, start, rejectSteps, massVars>>

NextChain == ChainMaximumTrajectoryLength \/ ChainDetectionLength \/ ChainReset

SpecChain == InitChain /\ [][NextChain]_vars

(***************************************************************************)
(* The propagation driver: each step runs process on the candidate and     *)
(* then moves it; it goes on while the candidate is active.                *)
(***************************************************************************)
MaxTravel == MaxLen + MaxStep   \* the driver's global length cap

\* Module::process, dispatched on the kind of break condition
process(m, c) ==
  CASE m.kind = "MaximumTrajectoryLength" -> MaximumTrajectoryLength_process(m, c)
    [] m.kind = "MinimumEnergy" -> MinimumEnergy_process(m, c)
    [] m.kind = "MinimumRigidity" -> MinimumRigidity_process(m, c)
    [] m.kind = "MinimumRedshift" -> MinimumRedshift_process(m, c)
    [] m.kind = "MinimumChargeNumber" -> MinimumChargeNumber_process(m, c)
    [] m.kind = "MinimumEnergyPerParticleId" -> MinimumEnergyPerParticleId_process(m, c)
    [] m.kind = "DetectionLength" -> DetectionLength_process(m, c)

DriverProcess ==
  /\ pc = "process"
  /\ cand.active
  /\ LET r == process(mod, cand)
     IN /\ cand' = r.cand
        /\ hist' = <<[pre |-> cand, post |-> r.cand, log |-> r.log]>>
        /\ rejectSteps' = rejectSteps + (IF r.log # <<>> /\ r.log[1].op = "tag" THEN 1 ELSE 0)
  /\ pc' = "advance"
  /\ UNCHANGED <<mod, start, massVars>>

\* a step of d along the trajectory, then the next-step bound is reset
Move(d) ==
  /\ cand' = [cand EXCEPT !.trajectoryLength = @ + d, !.currentStep = d,
                          !.nextStep = DefaultStep]
  /\ pc' = "process"
  /\ UNCHANGED <<mod, hist, start, rejectSteps, massVars>>

\* the step is positive and not larger than the next-step bound
DriverAdvance ==
  /\ pc = "advance"
  /\ cand.active
  /\ \E d \in 1..cand.nextStep :
       /\ cand.trajectoryLength + d <= MaxTravel
       /\ Move(d)

\* the step is positive, whatever the next-step bound
FreeAdvance ==
  /\ pc = "advance"
  /\ cand.active
  /\ \E d \in 1..MaxStep :
       /\ cand.trajectoryLength + d <= MaxTravel
       /\ Move(d)

\* SpecDriver: MaximumTrajectoryLength without observer positions, a
\* candidate that starts below maxLength, steps within the next-step bound
InitDriver ==
  /\ mod \in {MaximumTrajectoryLength(l, <<>>, f) : l \in Lengths, f \in Flags}
  /\ cand \in {[DefaultCandidate EXCEPT !.trajectoryLength = l] : l \in Lengths}
  /\ cand.trajectoryLength < mod.maxLength
  /\ hist = <<>>
  /\ pc = "process"
  /\ start = cand
  /\ rejectSteps = 0
  /\ MassIdle

NextDriver == DriverProcess \/ DriverAdvance

SpecDriver == InitDriver /\ [][NextDriver]_vars

\* SpecDetect: DetectionLength, steps of any positive size
InitDetect ==
  /\ mod \in {DetectionLength(l, f) : l \in Lengths, f \in Flags}
  /\ cand \in {[DefaultCandidate EXCEPT !.trajectoryLength = l, !.currentStep = s] :
                 l \in Lengths, s \in Steps}
  /\ cand.currentStep <= cand.trajectoryLength
  /\ hist = <<>>
  /\ pc = "process"
  /\ start = cand
  /\ rejectSteps = 0
  /\ MassIdle

NextDetect == DriverProcess \/ FreeAdvance

SpecDetect == InitDetect /\ [][NextDetect]_vars

(***************************************************************************)
(* The nuclear mass table.  The file nuclear_mass.txt is a sequence of     *)
(* lines, each a comment ('#' first) or a data line "Z N mass"; a mass of  *)
(* 0 marks a nucleus that is not known.  Masses are positive integers      *)
(* here.                                                                   *)
(***************************************************************************)
Stride == 31   \* N runs over 0..Stride-1 for each Z in the table index

MassOf(Z, N) == 1000 + Z * Stride + N

\* what an uninitialized double or a read outside the vector may hold
Garbage == {0, 777}

Comment == [comment |-> TRUE, Z |-> 0, N |-> 0, mass |-> 0]
DataLine(Z, N, mass) == [comment |-> FALSE, Z |-> Z, N |-> N, mass |-> mass]

\* the nuclei a file may or may not know
Probes == {<<0, 1>>, <<0, 30>>, <<1, 0>>, <<1, 1>>, <<1, 30>>}

\* the file with a line for every (Z, N), Z < nZ, N < Stride, in index order
MassFile(nZ, known, header, endsNewline) ==
  LET n == nZ * Stride
      data == [i \in 1..n |->
                 LET Z == (i - 1) \div Stride
                     N == (i - 1) % Stride
                 IN DataLine(Z, N, IF <<Z, N>> \in known THEN MassOf(Z, N) ELSE 0)]
  IN [readable |-> TRUE,
      lines |-> (IF header THEN <<Comment>> ELSE <<>>) \o data,
      endsNewline |-> endsNewline]

Unreadable == [readable |-> FALSE, lines |-> <<>>, endsNewline |-> FALSE]

Files ==
  {Unreadable}
  \cup {MassFile(nZ, known, header, nl) :
          nZ \in 0..MaxTableZ, known \in SUBSET Probes,
          header \in BOOLEAN, nl \in BOOLEAN}

\* The loop of the constructor reads one line in each iteration: a comment
\* line is skipped by ignore(), a data line is extracted and its mass pushed.
isData(line) == ~line.comment

\* the masses pushed while the lines are read, in file order
pushedMasses(f) ==
  LET d == SelectSeq(f.lines, isData)
  IN [i \in 1..Len(d) |-> d[i].mass]

\* After the last line the stream is still good() when that line ended with
\* a newline, or when the file has no line at all: the loop runs once more.
loopRunsAtEOF(f) == f.lines = <<>> \/ f.endsNewline

\* In that iteration peek() meets EOF, which is not '#', the extraction
\* fails and leaves mass as it was (the last mass read, or uninitialized),
\* and push_back(mass) appends it.
readTable(f, uninit) ==
  LET read == pushedMasses(f)
      mass == IF read = <<>> THEN uninit ELSE read[Len(read)]
  IN IF loopRunsAtEOF(f) THEN Append(read, mass) ELSE read

\* mutant: a file that cannot be opened is not reported; the loop finds the
\* stream not good and the table stays empty
NuclearMassTable_noThrow(f, uninit) ==
  IF ~f.readable
  THEN [state |-> "loaded", table |-> <<>>]
  ELSE [state |-> "loaded", table |-> readTable(f, uninit)]

\* NuclearMassTable::NuclearMassTable; uninit is what mass holds before the
\* first extraction
NuclearMassTable(f, uninit) ==
  IF ~f.readable
  THEN [state |-> "failed", table |-> <<>>]
  ELSE [state |-> "loaded", table |-> readTable(f, uninit)]

\* nucleusMass(id) when table[Z * 31 + N] reads the value mass
massResult(id, mass) ==
  IF mass = 0
  THEN [outcome |-> "throw", id |-> id, value |-> 0]
  ELSE [outcome |-> "return", id |-> id, value |-> mass]

\* the outcomes of nucleusMass(id): the vector is indexed without a range
\* check, so an index outside it reads anything or stops the program
nucleusMass(tbl, id) ==
  LET Z == chargeNumberFromNucleusId(id)
      N == massNumberFromNucleusId(id) - Z
      i == Z * Stride + N
  IN IF 0 <= i /\ i < Len(tbl)
     THEN {massResult(id, tbl[i + 1])}
     ELSE {massResult(id, g) : g \in Garbage}
          \cup {[outcome |-> "crash", id |-> id, value |-> 0]}

\* the ids looked up: in and out of the table, and N outside 0..Stride-1
MassIds ==
  {nucleusId(Z + N, Z) : Z \in 0..(MaxTableZ + 1), N \in {0, 1, Stride - 1, Stride}}
  \cup {nucleusId(0, 1)}

InitMass ==
  /\ file \in Files
  /\ table = <<>>
  /\ tstate = "unbuilt"
  /\ lookup = NoLookup
  /\ cand = DefaultCandidate
  /\ mod = MinimumEnergy(0, DefaultFlags)
  /\ hist = <<>>
  /\ pc = "mass"
  /\ start = cand
  /\ rejectSteps = 0

\* static NuclearMassTable nuclearMassTable: built once, before any lookup;
\* an exception out of the constructor ends the program
Construct ==
  /\ tstate = "unbuilt"
  /\ \E g \in Garbage :
       LET t == NuclearMassTable(file, g)
       IN tstate' = t.state /\ table' = t.table
  /\ UNCHANGED <<file, lookup, bcVars>>

Lookup ==
  /\ tstate = "loaded"
  /\ lookup.outcome # "crash"
  /\ \E id \in MassIds : lookup' \in nucleusMass(table, id)
  /\ UNCHANGED <<file, table, tstate, bcVars>>

NextMass == Construct \/ Lookup

SpecMass == InitMass /\ [][NextMass]_vars

(***************************************************************************)
(* Reading the history of process calls.                                   *)
(***************************************************************************)
Calls == 1..Len(hist)
CountOp(lg, op) == Cardinality({i \in 1..Len(lg) : lg[i].op = op})
Rejects(e) == CountOp(e.log, "tag")
Rejected(e) == \E i \in 1..Len(e.log) : e.log[i].op \in {"tag", "deactivate", "action"}

\* index of the first list entry for id, 0 when there is none
FirstEntry(m, id) ==
  IF \E i \in 1..Len(m.particleIds) : m.particleIds[i] = id
  THEN CHOOSE i \in 1..Len(m.particleIds) :
         /\ m.particleIds[i] = id
         /\ \A j \in 1..(i - 1) : m.particleIds[j] # id
  ELSE 0

\* the termination predicate of break condition m is violated by candidate c
Violated(m, c) ==
  CASE m.kind = "MaximumTrajectoryLength" ->
         \/ c.trajectoryLength >= m.maxLength
         \/ /\ m.observerPositions # <<>>
            /\ \A i \in 1..Len(m.observerPositions) :
                 Abs(c.position - m.observerPositions[i]) + c.trajectoryLength >= m.maxLength
    [] m.kind = "MinimumEnergy" -> c.energy <= m.minEnergy
    [] m.kind = "MinimumRigidity" ->
         chargeNumber(c.id) # 0 /\ c.energy < m.minRigidity * chargeNumber(c.id)
    [] m.kind = "MinimumRedshift" -> c.redshift <= m.zmin
    [] m.kind = "MinimumChargeNumber" -> chargeNumber(c.id) <= m.minChargeNumber
    [] m.kind = "MinimumEnergyPerParticleId" ->
         LET k == FirstEntry(m, c.id)
         IN IF k = 0 THEN c.energy < m.minEnergyOthers ELSE c.energy < m.minEnergies[k]
    [] m.kind = "DetectionLength" ->
         c.trajectoryLength >= m.detLength /\ c.trajectoryLength - c.currentStep < m.detLength

\* what one run of the reject protocol of m does, in order
RejectSteps(m) ==
  <<Ev("tag", 0)>>
  \o (IF m.makeRejectedInactive THEN <<Ev("deactivate", 0)>> ELSE <<>>)
  \o (IF m.rejectAction THEN <<Ev("action", 0)>> ELSE <<>>)

\* lg is one or more runs of the reject protocol of m, one after the other
IsRejectRuns(m, lg) ==
  LET n == Len(RejectSteps(m))
  IN /\ Len(lg) > 0
     /\ Len(lg) % n = 0
     /\ \A i \in 1..Len(lg) : lg[i] = RejectSteps(m)[((i - 1) % n) + 1]

(***************************************************************************)
(* C1: MinimumEnergy.process is strict at the boundary: a candidate whose  *)
(* energy equals minEnergy is not rejected, and a candidate whose energy   *)
(* is below minEnergy is rejected.                                         *)
(***************************************************************************)
C1_StrictAtBoundary ==
  mod.kind = "MinimumEnergy" =>
    \A k \in Calls :
      /\ hist[k].pre.energy = mod.minEnergy => ~Rejected(hist[k])
      /\ hist[k].pre.energy < mod.minEnergy => Rejected(hist[k])

(***************************************************************************)
(* C2: MaximumTrajectoryLength.process without observer positions: at      *)
(* trajectoryLength >= maxLength the candidate is rejected and             *)
(* limitNextStep is not called; below maxLength the candidate is not       *)
(* rejected and limitNextStep is called exactly once, with                 *)
(* maxLength - trajectoryLength.                                           *)
(***************************************************************************)
C2_MaxLengthNoObservers ==
  (mod.kind = "MaximumTrajectoryLength" /\ mod.observerPositions = <<>>) =>
    \A k \in Calls :
      IF hist[k].pre.trajectoryLength >= mod.maxLength
      THEN Rejected(hist[k]) /\ CountOp(hist[k].log, "limit") = 0
      ELSE hist[k].log = <<Ev("limit", mod.maxLength - hist[k].pre.trajectoryLength)>>

C2_Witness ==
  /\ mod.kind = "MaximumTrajectoryLength" /\ mod.observerPositions = <<>>
  /\ Len(hist) = 1
  /\ hist[1].pre.trajectoryLength = mod.maxLength - 1
  /\ hist[1].pre.nextStep = DefaultStep
  /\ cand.nextStep = 1
  /\ cand.tags = hist[1].pre.tags

(***************************************************************************)
(* C3: uniform reject protocol.  Whenever a break condition of any kind    *)
(* finds its predicate violated, after process the candidate carries       *)
(* tag[rejectFlagKey] = rejectFlagValue, it is inactive iff it was         *)
(* inactive before or makeRejectedInactive is set, the reject action has   *)
(* run iff one is configured, and the steps come in the order tag,         *)
(* deactivate, action.                                                     *)
(***************************************************************************)
C3_RejectProtocol ==
  \A k \in Calls :
    Violated(mod, hist[k].pre) =>
      /\ hist[k].post.tags[mod.rejectFlagKey] = mod.rejectFlagValue
      /\ (~hist[k].post.active) <=> (~hist[k].pre.active \/ mod.makeRejectedInactive)
      /\ (CountOp(hist[k].log, "action") > 0) <=> mod.rejectAction
      /\ IsRejectRuns(mod, hist[k].log)

C3_Witness ==
  /\ mod.kind = "MinimumRigidity"
  /\ mod.rejectAction /\ mod.makeRejectedInactive /\ mod.rejectFlagKey = "Stop"
  /\ Len(hist) = 1
  /\ hist[1].pre.active /\ ~cand.active
  /\ cand.tags["Stop"] = mod.rejectFlagValue
  /\ hist[1].log = <<Ev("tag", 0), Ev("deactivate", 0), Ev("action", 0)>>

(***************************************************************************)
(* C4: idempotence of rejection.  For a candidate that violates the        *)
(* predicate, two process calls in a row both reject, and the tag under    *)
(* rejectFlagKey, the active flag and the next-step bound are the same     *)
(* after the second call as after the first.                               *)
(***************************************************************************)
C4_RejectIdempotent ==
  (Len(hist) >= 2 /\ Violated(mod, hist[1].pre)) =>
    /\ Rejected(hist[1]) /\ Rejected(hist[2])
    /\ hist[2].post.tags = hist[1].post.tags
    /\ hist[2].post.active = hist[1].post.active
    /\ hist[2].post.nextStep = hist[1].post.nextStep

C4_Witness ==
  /\ mod.kind = "DetectionLength" /\ mod.makeRejectedInactive
  /\ Len(hist) = 2
  /\ hist[1].pre.active /\ hist[1].pre.tags # hist[1].post.tags
  /\ Rejected(hist[1]) /\ Rejected(hist[2])
  /\ ~cand.active

(***************************************************************************)
(* C6: MinimumEnergyPerParticleId.process, first match wins with fallback: *)
(* a candidate whose id is in the list is rejected iff its energy is below *)
(* the threshold of the first entry with that id; a candidate whose id is  *)
(* not in the list is rejected iff its energy is below minEnergyOthers.    *)
(***************************************************************************)
C6_FirstMatchWins ==
  mod.kind = "MinimumEnergyPerParticleId" =>
    \A k \in Calls :
      LET c == hist[k].pre
          i == FirstEntry(mod, c.id)
      IN IF i > 0
         THEN Rejected(hist[k]) <=> (c.energy < mod.minEnergies[i])
         ELSE Rejected(hist[k]) <=> (c.energy < mod.minEnergyOthers)

C6_Witness ==
  /\ mod.kind = "MinimumEnergyPerParticleId"
  /\ Len(mod.particleIds) = 2
  /\ mod.particleIds[1] = mod.particleIds[2]
  /\ Len(hist) = 1
  /\ hist[1].pre.id = mod.particleIds[1]
  /\ hist[1].pre.energy >= mod.minEnergies[1]
  /\ hist[1].pre.energy < mod.minEnergies[2]
  /\ hist[1].pre.energy < mod.minEnergyOthers
  /\ ~Rejected(hist[1])

(***************************************************************************)
(* C7: the next-step bound never increases within a step.  Between two     *)
(* resets of the bound, whatever MaximumTrajectoryLength and               *)
(* DetectionLength instances process the candidate and in whatever order,  *)
(* the bound after each call is at most the bound before it.               *)
(***************************************************************************)
C7_NextStepNeverIncreases == [][ChainReset \/ cand'.nextStep <= cand.nextStep]_vars

C7_Witness ==
  /\ pc = "chain"
  /\ Len(hist) = 1
  /\ mod.kind = "DetectionLength"
  /\ hist[1].pre.nextStep < DefaultStep
  /\ hist[1].pre.nextStep < mod.detLength - hist[1].pre.trajectoryLength
  /\ cand.nextStep = hist[1].pre.nextStep

(***************************************************************************)
(* C9: no overshoot of the maximum trajectory length.  A candidate starts  *)
(* below maxLength, there are no observer positions, and each step of the  *)
(* driver runs MaximumTrajectoryLength.process and then advances by a      *)
(* positive amount within the next-step bound.  Then trajectoryLength      *)
(* never exceeds maxLength, and the candidate is rejected only at          *)
(* trajectoryLength = maxLength.                                           *)
(***************************************************************************)
C9_NoOvershoot ==
  /\ cand.trajectoryLength <= mod.maxLength
  /\ \A k \in Calls : Rejected(hist[k]) => hist[k].pre.trajectoryLength = mod.maxLength

\* C9 as amended: the same, for a MaximumTrajectoryLength that deactivates
\* the candidates it rejects (makeRejectedInactive set), so that the driver
\* stops stepping at the rejection.
C9_NoOvershootWhenDeactivating ==
  mod.makeRejectedInactive =>
    /\ cand.trajectoryLength <= mod.maxLength
    /\ \A k \in Calls : Rejected(hist[k]) => hist[k].pre.trajectoryLength = mod.maxLength

C9_Witness ==
  /\ mod.kind = "MaximumTrajectoryLength" /\ mod.makeRejectedInactive
  /\ start.trajectoryLength = 0
  /\ mod.maxLength = MaxLen
  /\ cand.trajectoryLength = mod.maxLength
  /\ cand.currentStep = 1
  /\ pc = "advance"
  /\ Rejected(hist[1])
  /\ ~cand.active

(***************************************************************************)
(* C10: DetectionLength.process rejects iff trajectoryLength >= detLength  *)
(* and trajectoryLength - currentStep < detLength, and otherwise calls     *)
(* limitNextStep(detLength - trajectoryLength) without rejecting.  So      *)
(* along a trajectory that grows by currentStep > 0 each step, the         *)
(* candidate is rejected in exactly one step, the one in which the length  *)
(* crosses detLength.                                                      *)
(***************************************************************************)
Crossed(c) == c.trajectoryLength >= mod.detLength /\ start.trajectoryLength - start.currentStep < mod.detLength

C10_DetectionWindow ==
  /\ \A k \in Calls :
       LET c == hist[k].pre
       IN IF c.trajectoryLength >= mod.detLength /\ c.trajectoryLength - c.currentStep < mod.detLength
          THEN IsRejectRuns(mod, hist[k].log) /\ Len(hist[k].log) = Len(RejectSteps(mod))
          ELSE hist[k].log = <<Ev("limit", mod.detLength - c.trajectoryLength)>>
  /\ pc = "advance" => rejectSteps = (IF Crossed(cand) THEN 1 ELSE 0)
  /\ pc = "process" =>
       rejectSteps = (IF Crossed(cand) /\ cand.trajectoryLength - cand.currentStep >= mod.detLength
                      THEN 1 ELSE 0)

C10_Witness ==
  /\ mod.kind = "DetectionLength" /\ ~mod.makeRejectedInactive
  /\ pc = "advance"
  /\ rejectSteps = 1
  /\ start.trajectoryLength < mod.detLength
  /\ cand.trajectoryLength - cand.currentStep > mod.detLength
  /\ hist[1].log = <<Ev("limit", mod.detLength - cand.trajectoryLength)>>

(***************************************************************************)
(* C5: nucleusMass(id) returns the positive mass recorded for (Z, N) when  *)
(* the table has that entry, and fails with an error naming the id when it *)
(* has not, also when Z*31+N lies outside the table; it never returns 0 or *)
(* any other value.                                                        *)
(***************************************************************************)
\* the mass the file records for (Z, N), 0 when it records none
Recorded(Z, N) ==
  LET S == {i \in 1..Len(file.lines) :
              ~file.lines[i].comment /\ file.lines[i].Z = Z /\ file.lines[i].N = N}
  IN IF S = {} THEN 0 ELSE file.lines[CHOOSE i \in S : TRUE].mass

C5_LookupFindsOrFails ==
  lookup.outcome # "none" =>
    LET Z == chargeNumberFromNucleusId(lookup.id)
        N == massNumberFromNucleusId(lookup.id) - Z
    IN IF Recorded(Z, N) > 0
       THEN lookup.outcome = "return" /\ lookup.value = Recorded(Z, N)
       ELSE lookup.outcome = "throw"

(***************************************************************************)
(* C8: a nuclear mass file that cannot be opened is fatal at construction: *)
(* the constructor raises an error, no table is left to use, and no        *)
(* nucleusMass lookup gives a result.                                      *)
(***************************************************************************)
C8_NoFileNoLookup ==
  ~file.readable =>
    /\ tstate \in {"unbuilt", "failed"}
    /\ table = <<>>
    /\ lookup = NoLookup

C8_Witness == ~file.readable /\ tstate = "failed" /\ pc = "mass"

(***************************************************************************)
(* C11: MaximumTrajectoryLength.process with at least one observer         *)
(* position.  The candidate is rejected iff no observer position p has     *)
(* distance(currentPosition, p) + trajectoryLength < maxLength.  When it   *)
(* is rejected the reject protocol runs exactly once and limitNextStep is  *)
(* not called.  When it is not rejected, trajectoryLength < maxLength, so  *)
(* the length test does not reject and limitNextStep is called with        *)
(* maxLength - trajectoryLength.                                           *)
(***************************************************************************)
\* some observer position of m is in range of candidate c
ObserverInRange(m, c) ==
  \E i \in 1..Len(m.observerPositions) :
    Abs(c.position - m.observerPositions[i]) + c.trajectoryLength < m.maxLength

C11_MaxLengthWithObservers ==
  (mod.kind = "MaximumTrajectoryLength" /\ mod.observerPositions # <<>>) =>
    \A k \in Calls :
      IF ObserverInRange(mod, hist[k].pre)
      THEN /\ hist[k].pre.trajectoryLength < mod.maxLength
           /\ hist[k].log = <<Ev("limit", mod.maxLength - hist[k].pre.trajectoryLength)>>
      ELSE hist[k].log = RejectSteps(mod)

\* rejected for the observers alone: the length is still below maxLength
C11_Witness ==
  /\ mod.kind = "MaximumTrajectoryLength" /\ mod.observerPositions # <<>>
  /\ Len(hist) = 1
  /\ hist[1].pre.trajectoryLength > 0
  /\ hist[1].pre.trajectoryLength < mod.maxLength
  /\ hist[1].pre.position # mod.observerPositions[1]
  /\ Rejects(hist[1]) = 1
  /\ CountOp(hist[1].log, "limit") = 0
  /\ cand.nextStep = hist[1].pre.nextStep

(***************************************************************************)
(* C12: every break condition runs the reject protocol at most once in a   *)
(* process call, whatever its configuration (MinimumEnergyPerParticleId    *)
(* lists with duplicate ids and any minEnergyOthers included): reject, and *)
(* with it the reject action, is invoked zero or one times.                *)
(***************************************************************************)
C12_RejectAtMostOnce ==
  \A k \in Calls :
    /\ Rejects(hist[k]) <= 1
    /\ CountOp(hist[k].log, "action") <= 1

(***************************************************************************)
(* C13: in every process call of MaximumTrajectoryLength or                *)
(* DetectionLength, for any trajectoryLength >= 0 and currentStep >= 0,    *)
(* the value passed to limitNextStep is greater than 0.                    *)
(***************************************************************************)
C13_PositiveLimit ==
  mod.kind \in {"MaximumTrajectoryLength", "DetectionLength"} =>
    \A k \in Calls :
      \A i \in 1..Len(hist[k].log) :
        hist[k].log[i].op = "limit" => hist[k].log[i].arg > 0

(***************************************************************************)
(* C14: after NuclearMassTable is built from a readable file, the table    *)
(* holds exactly one entry per non-comment line, in file order, with no    *)
(* extra or repeated entry (none after the last line of a file that ends   *)
(* with a newline): as many entries as data lines.                         *)
(***************************************************************************)
\* the data lines of the file, in file order
DataLines == SelectSeq(file.lines, LAMBDA line : ~line.comment)

C14_OneEntryPerDataLine ==
  (file.readable /\ tstate = "loaded") =>
    /\ Len(table) = Len(DataLines)
    /\ \A i \in 1..Len(DataLines) : table[i] = DataLines[i].mass

====
